---- MODULE Spec2Model ----
(***************************************************************************)
(* Model of src/main.cpp: batch storage of particles, spawnParticle, the   *)
(* per-thread update pass, the updateSystem barrier and the loop of main.  *)
(*                                                                         *)
(* Numbers.  A float of the program is modelled bit for bit: sign,         *)
(* mantissa and exponent of the binary32 format, with the rounding of      *)
(* every single operation.  sf::Time is a count of microseconds.           *)
(*                                                                         *)
(* Threads.  The main thread runs the loop of main; every call of          *)
(* updateSystem creates hw detached threads running update(env, id).       *)
(* A step of a thread that touches only its own locals and its own batches *)
(* is one action; every access to shared data (particleCounter, the mutex  *)
(* m, threadSignals, the condition variable cv) is an action of its own.   *)
(* particleCounter is a plain int written by several threads: its          *)
(* decrement is a read followed by a write.                                *)
(*                                                                         *)
(* World.  main leaves env.bounds default-constructed, the empty rectangle *)
(* (0, 0, 0, 0), so that every particle fails the bounds test of update.   *)
(* The functions take the world as an argument; the model also runs them   *)
(* on the world whose bounds are the window rectangle W_DIM.               *)
(***************************************************************************)
EXTENDS Integers, Sequences, FiniteSets, TLC

\* ---------------------------------------------------------------- bounds
\* Largest value std::thread::hardware_concurrency() takes in the model.
MaxThreads == 2
\* Number of spawnParticle calls in a run.
MaxSpawns == 4
\* Number of updateSystem calls in a run.
MaxPasses == 2
\* Capacity of a batch in the model (the program's is 1000).
BatchCapacity == 3
\* Particles spawned by one click in the model (the program's are 100).
PartPerClick == 2

\* ------------------------------------------------------------- constants
MAX_BATCH_VERTS == BatchCapacity
MAX_PART_VEL == 30
PART_PER_CLICK == PartPerClick
\* dt as an sf::Time: sf::seconds(1.f / 60.f) holds Int64(0.016666668f * 1000000)
\* = 16666 microseconds; sf::Time adds, subtracts and compares microseconds.
dt == 16666

\* ------------------------------------------------------------ arithmetic
\* float is the IEEE 754 binary32 format, round to nearest, ties to even.  A
\* finite value is (-1)^s * m * 2^e with m < 2^24: m >= 2^23 for a normal number
\* (e from -149 to 104), e = -149 for a subnormal number and for zero.  e = EInf
\* marks an infinity (m = 0) or a NaN (m = 1); the one NaN stands for every NaN
\* of the format, whose sign and payload no operation of the program reads.
EMin == -149
EInf == 105
Float == [s : {0, 1}, m : Nat, e : Int]
Fl(s, m, e) == [s |-> s, m |-> m, e |-> e]
NaN == Fl(0, 1, EInf)
Inf(s) == Fl(s, 0, EInf)
Zero(s) == Fl(s, 0, EMin)
IsNaN(a) == a.e = EInf /\ a.m # 0
IsInf(a) == a.e = EInf /\ a.m = 0

Abs(x) == IF x < 0 THEN -x ELSE x
bitlen[n \in Nat] == IF n = 0 THEN 0 ELSE 1 + bitlen[n \div 2]
Xor(s, t) == IF s = t THEN 0 ELSE 1

\* Quotient q with remainder r of a division by 2 * h, rounded to nearest, ties
\* to even; with sticky, the dividend was a fraction more than q * 2 * h + r.
nearest[q \in Nat, r \in Nat, h \in Nat, sticky \in BOOLEAN] ==
    IF r > h \/ (r = h /\ (sticky \/ q % 2 = 1)) THEN q + 1 ELSE q

\* M (+ a fraction, with sticky) moved down by sh >= 1 bits and rounded.
shiftRight[M \in Nat, sh \in Nat, sticky \in BOOLEAN] ==
    IF sh >= 32 THEN 0
    ELSE IF sh = 31 THEN (IF M > 2^30 \/ (M = 2^30 /\ sticky) THEN 1 ELSE 0)
    ELSE nearest[M \div 2^sh, M % 2^sh, 2^(sh - 1), sticky]

\* The float of mantissa m <= 2^24 and exponent e: a mantissa that rounding
\* carried to 2^24 goes up one exponent, an exponent past the range is infinity.
pack[s \in {0, 1}, mt \in Nat, e \in Int] ==
    IF mt = 2^24 THEN (IF e + 1 >= EInf THEN Inf(s) ELSE Fl(s, 2^23, e + 1))
    ELSE IF e >= EInf THEN Inf(s) ELSE Fl(s, mt, e)

\* The float nearest to (-1)^s * (M + f) * 2^E at the exponent e0 of the result.
roundAt[s \in {0, 1}, M \in Nat, E \in Int, sticky \in BOOLEAN, e0 \in Int] ==
    pack[s, IF e0 <= E THEN M * 2^(E - e0) ELSE shiftRight[M, e0 - E, sticky], e0]

\* The float nearest to (-1)^s * (M + f) * 2^E, where 0 <= M < 2^31 and f is 0,
\* or a fraction strictly between 0 and 1 when sticky holds.
round[s \in {0, 1}, M \in Nat, E \in Int, sticky \in BOOLEAN] ==
    IF M = 0 THEN Zero(s)
    ELSE roundAt[s, M, E, sticky,
                 IF E + bitlen[M] - 24 > EMin THEN E + bitlen[M] - 24 ELSE EMin]

\* Conversion of an int to float.
F(k) == round[IF k < 0 THEN 1 ELSE 0, Abs(k), 0, FALSE]

\* A finite non-zero float with its mantissa moved up to 24 bits.
NormM(a) == a.m * 2^(24 - bitlen[a.m])
NormE(a) == a.e - (24 - bitlen[a.m])

\* |a| < |b| for floats that are not NaN.
MagLess(a, b) == a.e < b.e \/ (a.e = b.e /\ a.m < b.m)

\* Sum of (-1)^s * A * 2^e and (-1)^t * (B + f) * 2^e, where A > B.
addAligned[s \in {0, 1}, t \in {0, 1}, A \in Nat, B \in Nat, st \in BOOLEAN, e \in Int] ==
    IF s # t /\ A = B /\ ~st THEN Zero(0)
    ELSE round[s, IF s = t THEN A + B ELSE IF st THEN A - B - 1 ELSE A - B, e, st]

\* x + y for finite non-zero floats with |x| >= |y|: six guard bits, and the
\* bits of y below them in sticky.
addOrdered[x \in Float, y \in Float] ==
    addAligned[x.s, y.s, x.m * 64,
               IF x.e - y.e <= 30 THEN (y.m * 64) \div 2^(x.e - y.e) ELSE 0,
               IF x.e - y.e <= 30 THEN (y.m * 64) % 2^(x.e - y.e) # 0 ELSE TRUE,
               x.e - 6]

\* a + b.
fadd[a \in Float, b \in Float] ==
    IF IsNaN(a) \/ IsNaN(b) THEN NaN
    ELSE IF IsInf(a) THEN (IF IsInf(b) /\ a.s # b.s THEN NaN ELSE a)
    ELSE IF IsInf(b) THEN b
    ELSE IF a.m = 0 /\ b.m = 0 THEN Zero(IF a.s = b.s THEN a.s ELSE 0)
    ELSE IF a.m = 0 THEN b
    ELSE IF b.m = 0 THEN a
    ELSE addOrdered[IF MagLess(a, b) THEN b ELSE a, IF MagLess(a, b) THEN a ELSE b]

\* The product hh * 2^24 + mid * 2^12 + ll, times 2^(E - 18), rounded.
mulParts[s \in {0, 1}, hh \in Nat, mid \in Nat, ll \in Nat, E \in Int] ==
    round[s, hh * 64 + mid \div 64 + ((mid % 64) * 4096 + ll) \div 2^18, E,
          ((mid % 64) * 4096 + ll) % 2^18 # 0]

\* The product of two 24-bit mantissas, by halves of 12 bits.
mulMant[s \in {0, 1}, ma \in Nat, mb \in Nat, E \in Int] ==
    mulParts[s, (ma \div 4096) * (mb \div 4096),
             (ma \div 4096) * (mb % 4096) + (ma % 4096) * (mb \div 4096),
             (ma % 4096) * (mb % 4096), E]

\* a * b.
fmul[a \in Float, b \in Float] ==
    IF IsNaN(a) \/ IsNaN(b) THEN NaN
    ELSE IF IsInf(a) \/ IsInf(b)
         THEN (IF a.m = 0 /\ b.m = 0 /\ (~IsInf(a) \/ ~IsInf(b))
               THEN NaN ELSE Inf(Xor(a.s, b.s)))
    ELSE IF a.m = 0 \/ b.m = 0 THEN Zero(Xor(a.s, b.s))
    ELSE mulMant[Xor(a.s, b.s), NormM(a), NormM(b), NormE(a) + NormE(b) + 18]

\* Long division: n more bits of the quotient, from quotient q and remainder r.
divbits[q \in Nat, r \in Nat, d \in Nat, n \in Nat] ==
    IF n = 0 THEN << q, r >>
    ELSE IF 2 * r >= d THEN divbits[2 * q + 1, 2 * r - d, d, n - 1]
         ELSE divbits[2 * q, 2 * r, d, n - 1]

\* The quotient of two 24-bit mantissas to 26 more bits, rounded.
divMant[s \in {0, 1}, qr \in Nat \X Nat, E \in Int] ==
    round[s, qr[1], E, qr[2] # 0]

\* a / b: a finite non-zero a over zero is an infinity, zero over zero is NaN.
fdiv[a \in Float, b \in Float] ==
    IF IsNaN(a) \/ IsNaN(b) THEN NaN
    ELSE IF IsInf(a) THEN (IF IsInf(b) THEN NaN ELSE Inf(Xor(a.s, b.s)))
    ELSE IF IsInf(b) THEN Zero(Xor(a.s, b.s))
    ELSE IF b.m = 0 THEN (IF a.m = 0 THEN NaN ELSE Inf(Xor(a.s, b.s)))
    ELSE IF a.m = 0 THEN Zero(Xor(a.s, b.s))
    ELSE divMant[Xor(a.s, b.s),
                 divbits[NormM(a) \div NormM(b), NormM(a) % NormM(b), NormM(b), 26],
                 NormE(a) - NormE(b) - 26]

\* a < b.
fless[a \in Float, b \in Float] ==
    IF IsNaN(a) \/ IsNaN(b) THEN FALSE
    ELSE IF a.m = 0 /\ b.m = 0 /\ a.e = EMin /\ b.e = EMin THEN FALSE
    ELSE IF a.s # b.s THEN a.s = 1
    ELSE IF a.s = 0 THEN MagLess(a, b)
    ELSE MagLess(b, a)

FNeg(a) == IF IsNaN(a) THEN a ELSE [a EXCEPT !.s = 1 - a.s]
FAdd(a, b) == fadd[a, b]
FSub(a, b) == fadd[a, FNeg(b)]
FMul(a, b) == fmul[a, b]
FDiv(a, b) == fdiv[a, b]
FLess(a, b) == fless[a, b]
FGeq(a, b) == ~IsNaN(a) /\ ~IsNaN(b) /\ ~fless[a, b]
\* std::min and std::max.
FMin(a, b) == IF fless[b, a] THEN b ELSE a
FMax(a, b) == IF fless[a, b] THEN b ELSE a

\* sf::Vector2f and its operators, component by component.
Vector2f == [x : Float, y : Float]
Vec(x, y) == [x |-> x, y |-> y]
ZeroVec == Vec(Zero(0), Zero(0))
vadd[u \in Vector2f, v \in Vector2f] == Vec(FAdd(u.x, v.x), FAdd(u.y, v.y))
vsub[u \in Vector2f, v \in Vector2f] == Vec(FSub(u.x, v.x), FSub(u.y, v.y))
vmul[u \in Vector2f, s \in Float] == Vec(FMul(u.x, s), FMul(u.y, s))
vdiv[u \in Vector2f, s \in Float] == Vec(FDiv(u.x, s), FDiv(u.y, s))
VAdd(u, v) == vadd[u, v]
VSub(u, v) == vsub[u, v]
VMul(u, s) == vmul[u, s]
VDiv(u, s) == vdiv[u, s]

\* dt.asSeconds(): the microseconds, converted to float, divided by 1000000.f.
DT == FDiv(F(dt), F(1000000))
\* The literal 0.5f.
Half == FDiv(F(1), F(2))

\* sf::FloatRect (left, top, width, height): W_DIM, and the default-constructed
\* rectangle that env.bounds is in main.
FloatRect(l, t, w, h) == [left |-> F(l), top |-> F(t), width |-> F(w), height |-> F(h)]
W_DIM == FloatRect(0, 0, 800, 600)
DefaultRect == FloatRect(0, 0, 0, 0)

\* sf::FloatRect::contains.
contains(rect, p) ==
    LET minX == FMin(rect.left, FAdd(rect.left, rect.width))
        maxX == FMax(rect.left, FAdd(rect.left, rect.width))
        minY == FMin(rect.top, FAdd(rect.top, rect.height))
        maxY == FMax(rect.top, FAdd(rect.top, rect.height))
    IN  FGeq(p.x, minX) /\ FLess(p.x, maxX) /\ FGeq(p.y, minY) /\ FLess(p.y, maxY)

\* struct gField, and env.gravFields as main sets it up: one field in the middle
\* of the window.
gField(origin, inten) == [origin |-> origin, intensity |-> inten]
MainGravFields == << gField(Vec(F(400), F(300)), F(500)) >>

\* ------------------------------------------------------------------ state
VARIABLES
    hw,               \* value of std::thread::hardware_concurrency()
    bounds,           \* env.bounds
    gravFields,       \* env.gravFields: sequence of force fields
    particles,        \* env.particles: sequence of batches (batch j is particles[j+1])
    particleCounter,  \* global int particleCounter
    threadSignals,    \* global std::atomic<int> threadSignals
    m,                \* holder of std::mutex m: "free", "main" or "worker"
    mainpc,           \* position of the main thread
    click,            \* locals pos and i of the spawn loop of main
    time,             \* local time of main: the accumulator, in microseconds
    thNum,            \* local thNum of updateSystem
    thI,              \* loop variable i of updateSystem
    workers,          \* the threads running update(env, id), indexed by id
    spawns,           \* values drawn from gen so far = spawnParticle calls so far
    frame,            \* history: accumulator at the entry of the running tick loop,
                      \* and the calls of updateSystem made by it
    snap,             \* history: env.particles when the running pass began
    scanned,          \* history: batch indices whose scan is finished in this pass
    passes            \* history: number of updateSystem calls so far

vars == << hw, bounds, gravFields, particles, particleCounter, threadSignals, m, mainpc,
           click, time, thNum, thI, workers, spawns, frame, snap, scanned, passes >>

Slots == 0 .. (MAX_BATCH_VERTS - 1)
Ids == 0 .. (MaxThreads - 1)

\* struct batch and its constructor: every column default-constructed, population 0.
batch == [vertices     |-> [i \in Slots |-> ZeroVec],
          velocities   |-> [i \in Slots |-> ZeroVec],
          acceleration |-> [i \in Slots |-> ZeroVec],
          population   |-> 0]

\* A thread that does not exist (not yet created, or returned from update).
NoThread(pc) == [pc |-> pc, START |-> 0, END |-> 0, j |-> 0, i |-> 0, reg |-> 0]

\* ---------------------------------------------------------- spawnParticle
\* Mutant of spawnParticle: the full-batch test is N > MAX_BATCH_VERTS.
spawnParticleLate(pos, vel, batches) ==
    LET b1 == IF batches = << >> THEN << batch >> ELSE batches
        N0 == b1[Len(b1)].population
        b2 == IF N0 > MAX_BATCH_VERTS THEN Append(b1, batch) ELSE b1
        N  == IF N0 > MAX_BATCH_VERTS THEN 0 ELSE N0
        last == b2[Len(b2)]
    IN  [b2 EXCEPT ![Len(b2)] =
            [last EXCEPT !.vertices[N] = pos,
                         !.velocities[N] = vel,
                         !.population = last.population + 1]]

\* Mutant of spawnParticle: a batch counts as full one particle early.
spawnParticleEarly(pos, vel, batches) ==
    LET b1 == IF batches = << >> THEN << batch >> ELSE batches
        N0 == b1[Len(b1)].population
        b2 == IF N0 >= MAX_BATCH_VERTS - 1 THEN Append(b1, batch) ELSE b1
        N  == IF N0 >= MAX_BATCH_VERTS - 1 THEN 0 ELSE N0
        last == b2[Len(b2)]
    IN  [b2 EXCEPT ![Len(b2)] =
            [last EXCEPT !.vertices[N] = pos,
                         !.velocities[N] = vel,
                         !.population = last.population + 1]]

\* Mutant of spawnParticle: the particle goes to the first batch with a free slot.
spawnParticleFirstFree(pos, vel, batches) ==
    LET free == { j \in 1 .. Len(batches) : batches[j].population < MAX_BATCH_VERTS }
        b2   == IF free = {} THEN Append(batches, batch) ELSE batches
        t    == IF free = {} THEN Len(b2)
                ELSE CHOOSE j \in free : \A k \in free : j <= k
        N    == b2[t].population
    IN  [b2 EXCEPT ![t] =
            [b2[t] EXCEPT !.vertices[N] = pos,
                          !.velocities[N] = vel,
                          !.population = N + 1]]

\* The batches after spawnParticle(pos, vel, batches).
spawnParticle(pos, vel, batches) ==
    LET b1 == IF batches = << >> THEN << batch >> ELSE batches
        N0 == b1[Len(b1)].population
        b2 == IF N0 >= MAX_BATCH_VERTS THEN Append(b1, batch) ELSE b1
        N  == IF N0 >= MAX_BATCH_VERTS THEN 0 ELSE N0
        last == b2[Len(b2)]
    IN  [b2 EXCEPT ![Len(b2)] =
            [last EXCEPT !.vertices[N] = pos,
                         !.velocities[N] = vel,
                         !.population = last.population + 1]]

\* The mouse positions of a click (relative to the window, which the cursor may
\* have left): on the upper edge of the window, in the window and left of it.
MousePositions == { Vec(F(390), F(0)), Vec(F(390), F(300)), Vec(F(-5), F(300)) }

\* The velocities (MAX_PART_VEL * cos(angle), -MAX_PART_VEL * sin(angle)) of the
\* spawn loop, angle = dis(gen) * PI / 180, for the first values that dis draws
\* from the default-seeded engine gen.
Velocities ==
    << Vec(Fl(0, 15728640, -19), Fl(1, 12671425, -33)),   \* 0.00281732529 deg: (30, -0.00147514802)
       Vec(Fl(0, 10655710, -19), Fl(1, 11569182, -19)),   \* 47.3536072 deg: (20.3241539, -22.0664635)
       Vec(Fl(0, 8861371, -23), Fl(0, 15718886, -19)),   \* 272.017914 deg: (1.05635774, 29.9813957)
       Vec(Fl(1, 15200772, -19), Fl(1, 16162492, -21)),   \* 165.114044 deg: (-28.9931717, -7.70687675)
       Vec(Fl(1, 15396466, -19), Fl(0, 12861701, -21)),   \* 191.796204 deg: (-29.3664284, 6.13293695)
       Vec(Fl(0, 12192915, -21), Fl(1, 15430438, -19)),   \* 78.8253021 deg: (5.81403494, -29.4312248)
       Vec(Fl(0, 15046496, -19), Fl(1, 9163643, -20)),   \* 16.9360619 deg: (28.6989136, -8.73913097)
       Vec(Fl(1, 13596550, -20), Fl(0, 14183567, -19))    \* 244.391296 deg: (-12.9666805, 27.0530071)
    >>
SpawnVel(n) == Velocities[n + 1]

\* The locals of the spawn loop when it does not run.
NoClick == [pos |-> ZeroVec, i |-> 0]

\* The left button is pressed: the mouse position is read and the loop entered.
Click(pos) ==
    /\ mainpc = "idle"
    /\ spawns + PART_PER_CLICK <= MaxSpawns
    /\ mainpc' = "spawn"
    /\ click' = [pos |-> pos, i |-> 0]
    /\ UNCHANGED << hw, bounds, gravFields, particles, particleCounter, threadSignals, m,
                    time, thNum, thI, workers, spawns, frame, snap, scanned, passes >>

\* One iteration of the spawn loop: a draw, spawnParticle(pos, vel, env.particles),
\* and particleCounter++ inside it.
Spawn ==
    /\ mainpc = "spawn"
    /\ click.i < PART_PER_CLICK
    /\ particles' = spawnParticle(click.pos, SpawnVel(spawns), particles)
    /\ particleCounter' = particleCounter + 1
    /\ spawns' = spawns + 1
    /\ click' = [click EXCEPT !.i = @ + 1]
    /\ UNCHANGED << hw, bounds, gravFields, threadSignals, m, mainpc, time, thNum, thI,
                    workers, frame, snap, scanned, passes >>

\* ----------------------------------------------------------------- update
\* Mutant of GForce: the displacement is not divided by r2.
RECURSIVE GForceNoDiv(_, _, _)
GForceNoDiv(fields, k, p) ==
    IF k = 0 THEN ZeroVec
    ELSE VAdd(GForceNoDiv(fields, k - 1, p),
              VMul(VSub(fields[k].origin, p), fields[k].intensity))

\* r / r2 * g.intensity, for the displacement r from the particle to the origin
\* of a field.
Pull(r, inten) == VMul(VDiv(r, FAdd(FMul(r.x, r.x), FMul(r.y, r.y))), inten)

\* totalGForce after the loop over env.gravFields, for a particle at p.
RECURSIVE GForce(_, _, _)
GForce(fields, k, p) ==
    IF k = 0 THEN ZeroVec
    ELSE VAdd(GForce(fields, k - 1, p),
              Pull(VSub(fields[k].origin, p), fields[k].intensity))

\* position += velocities * dt.asSeconds() + acceleration * dt.asSeconds() * dt.asSeconds().
Move(b, i) ==
    [b EXCEPT !.vertices[i] =
        VAdd(@, VAdd(VMul(b.velocities[i], DT), VMul(VMul(b.acceleration[i], DT), DT)))]

\* velocities += 0.5f * (acceleration + totalGForce) * dt.asSeconds();
\* acceleration = totalGForce.
Verlet(b, i, tot) ==
    [b EXCEPT !.velocities[i] = VAdd(@, VMul(VMul(VAdd(b.acceleration[i], tot), Half), DT)),
              !.acceleration[i] = tot]

\* The in-bounds branch of update for slot i of batch b.
Integrate(b, i) ==
    Verlet(Move(b, i), i, GForce(gravFields, Len(gravFields), Move(b, i).vertices[i]))

\* Mutant of Shift: the gap left by the removed particle is not closed.
ShiftNone(b, k) == b

\* Mutant of Shift: the loop starts at slot 0 instead of the removed slot.
RECURSIVE ShiftFrom(_, _)
ShiftFrom(b, k) ==
    IF k < b.population
    THEN ShiftFrom([b EXCEPT !.vertices[k] = b.vertices[k + 1],
                             !.velocities[k] = b.velocities[k + 1]], k + 1)
    ELSE b
ShiftFromZero(b, k) == ShiftFrom(b, 0)

\* Mutant of Shift: the gap is closed with the particle of the last live slot.
ShiftSwapLast(b, k) ==
    IF k < b.population
    THEN [b EXCEPT !.vertices[k] = b.vertices[b.population],
                   !.velocities[k] = b.velocities[b.population]]
    ELSE b

\* The loop "for (m = i; m < population; m++)" of the out-of-bounds branch,
\* run after population was decremented.
RECURSIVE Shift(_, _)
Shift(b, k) ==
    IF k < b.population
    THEN Shift([b EXCEPT !.vertices[k] = b.vertices[k + 1],
                         !.velocities[k] = b.velocities[k + 1]], k + 1)
    ELSE b

\* Mutant of START: the range starts at the thread id.
STARTId(id, M, T) == id
\* Mutant of END: the last thread does not take the remainder.
ENDNoRemainder(id, M, T) == (M \div T) * (id + 1)

\* Partition of the batches among the threads.
STEP(M, T) == M \div T
START(id, M, T) == STEP(M, T) * id
END(id, M, T) == IF id = T - 1 THEN M ELSE STEP(M, T) * (id + 1)

\* Mutant of NextSlot: the scan of a batch starts at slot population - 2.
RECURSIVE NextSlotSkipTop(_, _, _)
NextSlotSkipTop(j, end, ps) ==
    IF j >= end THEN [j |-> j, i |-> -1]
    ELSE IF ps[j + 1].population - 2 >= 0
         THEN [j |-> j, i |-> ps[j + 1].population - 2]
         ELSE NextSlotSkipTop(j + 1, end, ps)

\* Loop control of the two for loops: the next slot to examine from batch j on,
\* or j = end when the range is exhausted.
RECURSIVE NextSlot(_, _, _)
NextSlot(j, end, ps) ==
    IF j >= end THEN [j |-> j, i |-> -1]
    ELSE IF ps[j + 1].population - 1 >= 0
         THEN [j |-> j, i |-> ps[j + 1].population - 1]
         ELSE NextSlot(j + 1, end, ps)

\* The thread record after its loops moved to slot nx (or left the loops).
Moved(wr, nx) ==
    [wr EXCEPT !.j = nx.j, !.i = IF nx.j >= wr.END THEN 0 ELSE nx.i,
               !.reg = 0,
               !.pc = IF nx.j >= wr.END THEN "lock" ELSE "scan"]

\* i-- after slot (j, i): stay in batch j or go on to the next batch.
AfterSlot(wr, ps) ==
    IF wr.i - 1 >= 0 THEN [j |-> wr.j, i |-> wr.i - 1]
    ELSE NextSlot(wr.j + 1, wr.END, ps)

\* Entry of update: the range of this thread, and the first slot of it.
WorkerStart(w) ==
    /\ workers[w].pc = "ready"
    /\ LET M  == Len(particles)
           s  == START(w, M, hw)
           e  == END(w, M, hw)
           nx == NextSlot(s, e, particles)
       IN  /\ workers' = [workers EXCEPT ![w] =
                  Moved([workers[w] EXCEPT !.START = s, !.END = e], nx)]
           /\ scanned' = scanned \cup { k \in s .. (nx.j - 1) : k < e }
    /\ UNCHANGED << hw, bounds, gravFields, particles, particleCounter, threadSignals, m,
                    mainpc, click, time, thNum, thI, spawns, frame, snap, passes >>

\* One iteration of the inner loop on a particle inside the bounds.
WorkerIntegrate(w) ==
    LET wr == workers[w] IN
    /\ wr.pc = "scan"
    /\ contains(bounds, particles[wr.j + 1].vertices[wr.i])
    /\ particles' = [particles EXCEPT ![wr.j + 1] = Integrate(@, wr.i)]
    /\ workers' = [workers EXCEPT ![w] = Moved(wr, AfterSlot(wr, particles'))]
    /\ scanned' = scanned \cup { k \in wr.j .. (workers'[w].j - 1) : k < wr.END }
    /\ UNCHANGED << hw, bounds, gravFields, particleCounter, threadSignals, m, mainpc,
                    click, time, thNum, thI, spawns, frame, snap, passes >>

\* A particle outside the bounds: population-- .
WorkerRemove(w) ==
    LET wr == workers[w] IN
    /\ wr.pc = "scan"
    /\ ~contains(bounds, particles[wr.j + 1].vertices[wr.i])
    /\ particles' = [particles EXCEPT ![wr.j + 1].population = @ - 1]
    /\ workers' = [workers EXCEPT ![w].pc = "load"]
    /\ UNCHANGED << hw, bounds, gravFields, particleCounter, threadSignals, m, mainpc,
                    click, time, thNum, thI, spawns, frame, snap, scanned, passes >>

\* particleCounter-- on the plain int: the read ...
WorkerLoad(w) ==
    /\ workers[w].pc = "load"
    /\ workers' = [workers EXCEPT ![w].reg = particleCounter, ![w].pc = "store"]
    /\ UNCHANGED << hw, bounds, gravFields, particles, particleCounter, threadSignals, m,
                    mainpc, click, time, thNum, thI, spawns, frame, snap, scanned, passes >>

\* ... and the write, followed by the shift loop and the loop control.
WorkerStore(w) ==
    LET wr == workers[w] IN
    /\ wr.pc = "store"
    /\ particleCounter' = wr.reg - 1
    /\ particles' = [particles EXCEPT ![wr.j + 1] = Shift(@, wr.i)]
    /\ workers' = [workers EXCEPT ![w] = Moved(wr, AfterSlot(wr, particles'))]
    /\ scanned' = scanned \cup { k \in wr.j .. (workers'[w].j - 1) : k < wr.END }
    /\ UNCHANGED << hw, bounds, gravFields, threadSignals, m, mainpc, click, time, thNum,
                    thI, spawns, frame, snap, passes >>

\* std::lock_guard<std::mutex> lc(m).
WorkerLock(w) ==
    /\ workers[w].pc = "lock"
    /\ m = "free"
    /\ m' = "worker"
    /\ workers' = [workers EXCEPT ![w].pc = "signal"]
    /\ UNCHANGED << hw, bounds, gravFields, particles, particleCounter, threadSignals,
                    mainpc, click, time, thNum, thI, spawns, frame, snap, scanned, passes >>

\* Mutant of notify_all: the notification is lost.
notify_none(pc) == pc

\* cv.notify_all(): a thread blocked in cv.wait is woken; otherwise nothing happens.
notify_all(pc) == IF pc = "wait" THEN "wake" ELSE pc

\* threadSignals++; cv.notify_all(); the guard releases m and the thread ends.
WorkerSignal(w) ==
    /\ workers[w].pc = "signal"
    /\ threadSignals' = threadSignals + 1
    /\ mainpc' = notify_all(mainpc)
    /\ m' = "free"
    /\ workers' = [workers EXCEPT ![w] = NoThread("done")]
    /\ UNCHANGED << hw, bounds, gravFields, particles, particleCounter, click, time, thNum,
                    thI, spawns, frame, snap, scanned, passes >>

Worker(w) ==
    \/ WorkerStart(w)
    \/ WorkerIntegrate(w)
    \/ WorkerRemove(w)
    \/ WorkerLoad(w)
    \/ WorkerStore(w)
    \/ WorkerLock(w)
    \/ WorkerSignal(w)

\* ----------------------------------------------------------- updateSystem
\* Mutant of TickTest: the loop runs while time > dt.
TickTestStrict(t) == t > dt
\* The test of the loop "while (time >= dt)".
TickTest(t) == t >= dt

\* The test of the tick loop holds and updateSystem(env) is called:
\* int thNum = std::thread::hardware_concurrency().
UpdateSystemEnter ==
    /\ mainpc = "tick"
    /\ TickTest(time)
    /\ thNum' = hw
    /\ thI' = 0
    /\ mainpc' = "create"
    /\ frame' = [frame EXCEPT !.calls = @ + 1]
    /\ snap' = particles
    /\ scanned' = {}
    /\ passes' = passes + 1
    /\ UNCHANGED << hw, bounds, gravFields, particles, particleCounter, threadSignals, m,
                    click, time, workers, spawns >>

\* One iteration of the loop: std::thread t(&update, std::ref(env), i); t.detach().
UpdateSystemCreate ==
    /\ mainpc = "create"
    /\ thI < thNum
    /\ workers' = [workers EXCEPT ![thI] = NoThread("ready")]
    /\ thI' = thI + 1
    /\ UNCHANGED << hw, bounds, gravFields, particles, particleCounter, threadSignals, m,
                    mainpc, click, time, thNum, spawns, frame, snap, scanned, passes >>

\* Loop exit and std::unique_lock<std::mutex> lock(m).
UpdateSystemLock ==
    /\ mainpc = "create"
    /\ ~(thI < thNum)
    /\ m = "free"
    /\ m' = "main"
    /\ mainpc' = "check"
    /\ UNCHANGED << hw, bounds, gravFields, particles, particleCounter, threadSignals,
                    click, time, thNum, thI, workers, spawns, frame, snap, scanned,
                    passes >>

\* Mutant of WaitPredicate: one signal is enough.
WaitPredicateAny == threadSignals >= 1

\* The predicate of cv.wait.
WaitPredicate == threadSignals = thNum

\* cv.wait evaluates its predicate holding m: leave the wait, or release m and block.
UpdateSystemCheck ==
    /\ mainpc = "check"
    /\ IF WaitPredicate
       THEN mainpc' = "reset" /\ m' = m
       ELSE mainpc' = "wait" /\ m' = "free"
    /\ UNCHANGED << hw, bounds, gravFields, particles, particleCounter, threadSignals,
                    click, time, thNum, thI, workers, spawns, frame, snap, scanned,
                    passes >>

\* A wait on a condition variable may end without a notification.
UpdateSystemSpurious ==
    /\ mainpc = "wait"
    /\ mainpc' = "wake"
    /\ UNCHANGED << hw, bounds, gravFields, particles, particleCounter, threadSignals, m,
                    click, time, thNum, thI, workers, spawns, frame, snap, scanned,
                    passes >>

\* The woken thread takes m again before the predicate is evaluated.
UpdateSystemWake ==
    /\ mainpc = "wake"
    /\ m = "free"
    /\ m' = "main"
    /\ mainpc' = "check"
    /\ UNCHANGED << hw, bounds, gravFields, particles, particleCounter, threadSignals,
                    click, time, thNum, thI, workers, spawns, frame, snap, scanned,
                    passes >>

\* Mutant of UpdateSystemReturn: threadSignals is not reset.
UpdateSystemReturnNoReset ==
    /\ mainpc = "reset"
    /\ m' = "free"
    /\ mainpc' = "returned"
    /\ UNCHANGED << hw, bounds, gravFields, particles, particleCounter, threadSignals,
                    click, time, thNum, thI, workers, spawns, frame, snap, scanned,
                    passes >>

\* threadSignals = 0; return (lock releases m).
UpdateSystemReturn ==
    /\ mainpc = "reset"
    /\ threadSignals' = 0
    /\ m' = "free"
    /\ mainpc' = "returned"
    /\ UNCHANGED << hw, bounds, gravFields, particles, particleCounter, click, time, thNum,
                    thI, workers, spawns, frame, snap, scanned, passes >>

\* updateSystem has returned: time -= dt, and back to the test of the loop.
MainContinue ==
    /\ mainpc = "returned"
    /\ mainpc' = "tick"
    /\ time' = time - dt
    /\ snap' = << >>
    /\ scanned' = {}
    /\ thNum' = 0
    /\ thI' = 0
    /\ workers' = [w \in Ids |-> NoThread("none")]
    /\ UNCHANGED << hw, bounds, gravFields, particles, particleCounter, threadSignals, m,
                    click, spawns, frame, passes >>

\* ------------------------------------------------------- the loop of main
\* Values of clock.restart() (microseconds): nothing, half a dt and two and a
\* half dt.
FrameDeltas == { 0, 8333, 41665 }

\* The history before the first tick loop.
NoFrame == [entry |-> 0, calls |-> 0]

\* The button is not pressed, or the spawn loop is finished:
\* time += clock.restart(), then the tick loop is entered.  The run is cut
\* where the loop would call updateSystem more than MaxPasses times.
TickFrame(delta) ==
    /\ mainpc = "idle" \/ (mainpc = "spawn" /\ ~(click.i < PART_PER_CLICK))
    /\ passes + (time + delta) \div dt <= MaxPasses
    /\ time' = time + delta
    /\ frame' = [entry |-> time + delta, calls |-> 0]
    /\ click' = NoClick
    /\ mainpc' = "tick"
    /\ UNCHANGED << hw, bounds, gravFields, particles, particleCounter, threadSignals, m,
                    thNum, thI, workers, spawns, snap, scanned, passes >>

\* The test of the tick loop fails: the batches are drawn and the next
\* iteration of the loop of main begins.
TickDone ==
    /\ mainpc = "tick"
    /\ ~TickTest(time)
    /\ mainpc' = "idle"
    /\ UNCHANGED << hw, bounds, gravFields, particles, particleCounter, threadSignals, m,
                    click, time, thNum, thI, workers, spawns, frame, snap, scanned,
                    passes >>

\* ---------------------------------------------------------- specification
\* The state of main before its loop, for the world as main builds it
\* (env.bounds default-constructed) and for the world with env.bounds = W_DIM.
Init ==
    /\ hw \in 0 .. MaxThreads
    /\ bounds \in { DefaultRect, W_DIM }
    /\ gravFields = MainGravFields
    /\ particles = << >>
    /\ particleCounter = 0
    /\ threadSignals = 0
    /\ m = "free"
    /\ mainpc = "idle"
    /\ click = NoClick
    /\ time = 0
    /\ thNum = 0
    /\ thI = 0
    /\ workers = [w \in Ids |-> NoThread("none")]
    /\ spawns = 0
    /\ frame = NoFrame
    /\ snap = << >>
    /\ scanned = {}
    /\ passes = 0

\* The steps of a call of updateSystem.
PassNext ==
    \/ UpdateSystemEnter
    \/ UpdateSystemCreate
    \/ UpdateSystemLock
    \/ UpdateSystemCheck
    \/ UpdateSystemSpurious
    \/ UpdateSystemWake
    \/ UpdateSystemReturn
    \/ MainContinue
    \/ \E w \in Ids : Worker(w)

Next ==
    \/ \E pos \in MousePositions : Click(pos)
    \/ Spawn
    \/ \E delta \in FrameDeltas : TickFrame(delta)
    \/ TickDone
    \/ PassNext

Spec == Init /\ [][Next]_vars

\* Scheduling: a runnable thread eventually runs, and a thread that asks for the
\* mutex again and again eventually gets it.  A wake-up without notification is
\* never owed to the waiting thread.
UpdateSystemProgress ==
    \/ UpdateSystemCreate
    \/ UpdateSystemLock
    \/ UpdateSystemCheck
    \/ UpdateSystemWake
    \/ UpdateSystemReturn

FairSpec ==
    /\ Spec
    /\ SF_vars(UpdateSystemProgress)
    /\ \A w \in Ids : SF_vars(Worker(w))


\* -------------------------------------- updateSystem on a given world
\* One call of updateSystem(env) as a function of the world the caller gives
\* it: bounds W_DIM and either one force field and one batch with one live
\* particle, or the field of main and one batch with three live particles.
\* The single particle is inside the bounds (at rest or moving, on a field
\* origin, next to it or far from it) or outside them; its velocity may carry
\* it out of the bounds in the pass.
PassFields ==
    { MainGravFields,
      << gField(ZeroVec, F(500)) >>,
      << gField(ZeroVec, F(-3)) >>,
      << gField(ZeroVec, Fl(0, 11184811, -25)) >>,      \* 0.333333343
      << gField(ZeroVec, Fl(1, 11382769, 36)) >> }      \* -7.8190127e+17
PassPositions ==
    { Vec(F(400), F(300)), Vec(F(390), F(300)), Vec(F(5), F(0)), Vec(F(7), F(0)),
      Vec(F(-5), F(300)),
      Vec(Fl(0, 13421773, -27), F(0)),                  \* 0.100000001
      Vec(Fl(0, 13107199, -14), F(0)),                  \* 799.999939
      Vec(Fl(0, 8388608, -83), F(0)),                   \* 2^-60
      Vec(Fl(0, 12345677, -93), F(0)),                  \* 1.24657e-21: its square is subnormal
      Vec(Fl(0, 8388608, -98), F(0)) }                  \* 2^-75: its square rounds to 0
PassVelocities ==
    { ZeroVec, Vec(F(MAX_PART_VEL), F(0)), Vec(F(-MAX_PART_VEL), F(0)),
      Vec(Fl(0, 8388608, 42), F(0)),                    \* 2^65
      Vec(Fl(0, 8388608, 49), F(0)) }                   \* 2^72

OneParticle(pos, vel) ==
    << [batch EXCEPT !.vertices[0] = pos, !.velocities[0] = vel, !.population = 1] >>

\* A batch with three live particles of three velocities; those of the slots in
\* out are outside the bounds, the others inside.
ThreeParticles(out) ==
    << [batch EXCEPT
          !.vertices[0] = IF 0 \in out THEN Vec(F(-5), F(300)) ELSE Vec(F(390), F(300)),
          !.vertices[1] = IF 1 \in out THEN Vec(F(-5), F(300)) ELSE Vec(F(390), F(300)),
          !.vertices[2] = IF 2 \in out THEN Vec(F(-5), F(300)) ELSE Vec(F(390), F(300)),
          !.velocities[0] = SpawnVel(0),
          !.velocities[1] = SpawnVel(1),
          !.velocities[2] = SpawnVel(2),
          !.population = 3] >>

PassWorlds ==
    { [gravFields |-> g, particles |-> OneParticle(pos, vel)] :
          g \in PassFields, pos \in PassPositions, vel \in PassVelocities }
    \cup { [gravFields |-> MainGravFields, particles |-> ThreeParticles(out)] :
               out \in SUBSET (0 .. 2) }

PassInit ==
    /\ hw \in 1 .. MaxThreads
    /\ bounds = W_DIM
    /\ \E wd \in PassWorlds : gravFields = wd.gravFields /\ particles = wd.particles
    /\ particleCounter = particles[1].population
    /\ threadSignals = 0
    /\ m = "free"
    /\ mainpc = "tick"
    /\ click = NoClick
    /\ time = dt
    /\ thNum = 0
    /\ thI = 0
    /\ workers = [w \in Ids |-> NoThread("none")]
    /\ spawns = particles[1].population
    /\ frame = [entry |-> dt, calls |-> 0]
    /\ snap = << >>
    /\ scanned = {}
    /\ passes = 0

PassSpec == PassInit /\ [][PassNext]_vars

\* ------------------------------------------ spawnParticle on a given world
\* The worlds given to spawnParticle: up to three batches of any population, as
\* spawns and removals leave them; every slot, live or stale, holds a value of
\* its own.
Mark(j, i) == Vec(F(100 * j + i), F(300))
FilledBatch(j, n) ==
    [vertices     |-> [i \in Slots |-> Mark(j, i)],
     velocities   |-> [i \in Slots |-> Vec(F(j), F(i))],
     acceleration |-> [i \in Slots |-> Vec(F(-i), F(-j))],
     population   |-> n]
SpawnWorlds ==
    { << >> }
    \cup { << FilledBatch(1, n) >> : n \in 0 .. MAX_BATCH_VERTS }
    \cup { << FilledBatch(1, n1), FilledBatch(2, n2) >> :
               n1 \in 0 .. MAX_BATCH_VERTS, n2 \in 0 .. MAX_BATCH_VERTS }
    \cup { << FilledBatch(1, n1), FilledBatch(2, n2), FilledBatch(3, n3) >> :
               n1 \in 0 .. MAX_BATCH_VERTS, n2 \in 0 .. MAX_BATCH_VERTS,
               n3 \in 0 .. MAX_BATCH_VERTS }

RECURSIVE SumPopulation(_, _)
SumPopulation(ps, k) ==
    IF k = 0 THEN 0 ELSE ps[k].population + SumPopulation(ps, k - 1)

SpawnInit ==
    /\ hw = 1
    /\ bounds = W_DIM
    /\ gravFields = MainGravFields
    /\ particles \in SpawnWorlds
    /\ particleCounter = SumPopulation(particles, Len(particles))
    /\ threadSignals = 0
    /\ m = "free"
    /\ mainpc = "idle"
    /\ click = NoClick
    /\ time = 0
    /\ thNum = 0
    /\ thI = 0
    /\ workers = [w \in Ids |-> NoThread("none")]
    /\ spawns = 0
    /\ frame = NoFrame
    /\ snap = << >>
    /\ scanned = {}
    /\ passes = 0

\* A click and the iterations of its spawn loop.
SpawnNext ==
    \/ \E pos \in MousePositions : Click(pos)
    \/ Spawn

SpawnSpec == SpawnInit /\ [][SpawnNext]_vars

\* ------------------------------------------------------------ definitions
\* Used by the properties below.
InUpdateSystem == mainpc \in {"create", "check", "wait", "wake", "reset"}
Running(w) == workers[w].pc \notin {"none", "done"}
InLoops(w) == workers[w].pc \in {"scan", "load", "store"}
Range(id, M, T) == START(id, M, T) .. (END(id, M, T) - 1)
Live(b) == 0 .. (b.population - 1)
\* updateSystem has returned from a pass that ran threads.
PassReturned == mainpc = "returned" /\ thNum >= 1

\* The slots of batch b that are live and inside the bounds, in index order.
InBoundsSlots(b) ==
    SelectSeq([k \in 1 .. b.population |-> k - 1],
              LAMBDA k : contains(bounds, b.vertices[k]))
\* The live slots of b that hold a position outside, or inside, the bounds.
OutsideSlots(b) == { k \in Live(b) : ~contains(bounds, b.vertices[k]) }
InsideSlots(b) == { k \in Live(b) : contains(bounds, b.vertices[k]) }

\* Position and velocity of slot k of batch b, and what they are after one
\* integration of that slot.
PosVel(b, k) == << b.vertices[k], b.velocities[k] >>
IntegratedOnce(b, k) == PosVel(Integrate(b, k), k)

\* Single-threaded reference pass: batches 0..M-1 in order, each scanned from its
\* top slot down with the per-particle step of update.
ReferenceSlot(b, i) ==
    IF contains(bounds, b.vertices[i])
    THEN Integrate(b, i)
    ELSE Shift([b EXCEPT !.population = @ - 1], i)

RECURSIVE ReferenceBatch(_, _)
ReferenceBatch(b, i) ==
    IF i < 0 THEN b ELSE ReferenceBatch(ReferenceSlot(b, i), i - 1)

ReferencePass(ps) ==
    [j \in 1 .. Len(ps) |-> ReferenceBatch(ps[j], ps[j].population - 1)]

\* ceil(n / k) for n >= 0 and k >= 1.
CeilDiv(n, k) == (n + k - 1) \div k

\* The place of a finite float among the floats of its sign, counted from zero:
\* floats next to each other have places next to each other.
Place(a) == (a.e - EMin) * 2^23 + a.m
\* a and b are finite floats of one sign, at most n floats apart.
Near(a, b, n) ==
    /\ a.e # EInf /\ b.e # EInf
    /\ a.s = b.s
    /\ Abs(Place(a) - Place(b)) <= n
\* a is a normal float with 2^lo <= |a| < 2^hi.
Magnitude(a, lo, hi) ==
    a.e # EInf /\ a.m >= 2^23 /\ lo <= a.e + 23 /\ a.e + 23 < hi

\* ----------------------------------------------------------------- claims

\* C1: outside updateSystem (where main spawns and renders) no thread of a pass
\* is running, and when updateSystem returns with T >= 1 every batch index in
\* [0, M) has been fully scanned.
BarrierComplete ==
    /\ ~InUpdateSystem => \A w \in Ids : ~Running(w)
    /\ PassReturned => scanned = 0 .. (Len(particles) - 1)

\* A pass of two threads over two batches has returned after removing a
\* particle.
BarrierCompleteWitness ==
    /\ mainpc = "returned"
    /\ thNum = 2
    /\ Len(particles) = 2
    /\ SumPopulation(particles, Len(particles)) < SumPopulation(snap, Len(snap))

\* C2: whenever no pass is in flight, particleCounter equals the sum of the
\* populations of all batches.
CounterMatchesPopulation ==
    ~InUpdateSystem => particleCounter = SumPopulation(particles, Len(particles))

\* C3: for T >= 1 the ranges [START, END) of the threads 0..T-1 are pairwise
\* disjoint and cover exactly [0, M), and no two threads are ever in the loops
\* on the same batch.
PartitionDisjointCover ==
    hw >= 1 =>
        LET M == Len(particles) IN
        /\ \A a, b \in 0 .. (hw - 1) :
               a # b => Range(a, M, hw) \cap Range(b, M, hw) = {}
        /\ UNION { Range(a, M, hw) : a \in 0 .. (hw - 1) } = 0 .. (M - 1)
        /\ \A a \in Ids : InLoops(a) => /\ workers[a].START = START(a, M, hw)
                                        /\ workers[a].END = END(a, M, hw)
                                        /\ workers[a].j \in Range(a, M, hw)
        /\ \A a, b \in Ids :
               (a # b /\ InLoops(a) /\ InLoops(b)) => workers[a].j # workers[b].j

\* Two threads and one batch (M < T, M not divisible by T); the last thread
\* scans the batch.
PartitionDisjointCoverWitness ==
    /\ hw = 2
    /\ Len(particles) = 1
    /\ InLoops(1)
    /\ workers[0].pc = "lock"

\* C4: in every reachable state, also in the middle of a pass, every batch has
\* 0 <= population <= MAX_BATCH_VERTS.
PopulationInRange ==
    \A j \in 1 .. Len(particles) :
        particles[j].population >= 0 /\ particles[j].population <= MAX_BATCH_VERTS

\* In the middle of a pass one batch is full while a thread has just
\* decremented the population of another batch to 0.
PopulationInRangeWitness ==
    /\ Len(particles) = 2
    /\ particles[1].population = MAX_BATCH_VERTS
    /\ \E w \in Ids : /\ workers[w].pc = "load"
                      /\ workers[w].j = 1
                      /\ particles[2].population = 0

\* C5 as stated: when a pass (T >= 1) returns, no live slot of any batch holds a
\* position outside the bounds.
NoLiveOutOfBoundsAtReturn ==
    PassReturned =>
        \A j \in 1 .. Len(particles) :
            \A i \in Live(particles[j]) : contains(bounds, particles[j].vertices[i])

\* C5 amended: when a pass (T >= 1) returns, each batch holds exactly the
\* particles that were inside the bounds when the pass began, at their
\* integrated positions and in their order: the population went down by one for
\* every particle that was outside the bounds at the start, and a particle whose
\* integrated position is outside the bounds is still live.
RemovedWhenScannedOutside ==
    PassReturned =>
        \A j \in 1 .. Len(snap) :
            LET kept == InBoundsSlots(snap[j]) IN
            /\ particles[j].population = Len(kept)
            /\ \A n \in 1 .. Len(kept) :
                   particles[j].vertices[n - 1] =
                       Integrate(snap[j], kept[n]).vertices[kept[n]]

\* A pass returned that removed a particle which was outside the bounds when it
\* began, and kept live a particle which was inside then and left the bounds by
\* its integration.
RemovedWhenScannedOutsideWitness ==
    /\ PassReturned
    /\ \E j \in 1 .. Len(snap) :
           /\ OutsideSlots(snap[j]) # {}
           /\ particles[j].population = snap[j].population - Cardinality(OutsideSlots(snap[j]))
    /\ \E j \in 1 .. Len(snap) :
           /\ snap[j].population = 1
           /\ contains(bounds, snap[j].vertices[0])
           /\ particles[j].population = 1
           /\ ~contains(bounds, particles[j].vertices[0])

\* C6: when a pass (T >= 1) returns, every surviving particle carries its own
\* integrated position, velocity and acceleration: the live slots of a batch
\* are the integrated in-bounds particles of the start of the pass, column by
\* column.
SurvivorsKeepAllColumns ==
    PassReturned =>
        \A j \in 1 .. Len(snap) :
            LET kept == InBoundsSlots(snap[j]) IN
            \A n \in 1 .. Len(kept) :
                /\ particles[j].vertices[n - 1] =
                       Integrate(snap[j], kept[n]).vertices[kept[n]]
                /\ particles[j].velocities[n - 1] =
                       Integrate(snap[j], kept[n]).velocities[kept[n]]
                /\ particles[j].acceleration[n - 1] =
                       Integrate(snap[j], kept[n]).acceleration[kept[n]]

\* C7: the slot written by a spawnParticle call holds the given position, the
\* given velocity and the acceleration (0, 0).
SpawnWritesParticle ==
    [][Spawn =>
           /\ particles'[Len(particles')].vertices[particles'[Len(particles')].population - 1]
                  = click.pos
           /\ particles'[Len(particles')].velocities[particles'[Len(particles')].population - 1]
                  = SpawnVel(spawns)
           /\ particles'[Len(particles')].acceleration[particles'[Len(particles')].population - 1]
                  = ZeroVec]_vars

\* C8: with hardware_concurrency() = 0 updateSystem still performs one complete
\* pass: when it returns the batches are those of the reference pass.
ZeroThreadsStillPass ==
    (mainpc = "returned" /\ thNum = 0) => particles = ReferencePass(snap)

\* C9: for T >= 1 and every interleaving, the batches at the return of
\* updateSystem equal those of the single-threaded reference pass on the batches
\* the pass began with.
MatchesReferencePass ==
    PassReturned => particles = ReferencePass(snap)

\* Two threads finished a pass over two batches that integrated a particle and
\* removed another.
MatchesReferencePassWitness ==
    /\ mainpc = "returned"
    /\ thNum = 2
    /\ Len(snap) = 2
    /\ snap[2].population >= 1
    /\ \E j \in 1 .. Len(snap) : particles[j].population < snap[j].population
    /\ \E j \in 1 .. Len(snap) : particles[j].population > 0

\* C10: under fair scheduling and T >= 1 every call of updateSystem returns.
UpdateSystemReturns ==
    (mainpc = "create" /\ thNum >= 1) ~> (mainpc = "returned")

\* The caller is blocked in cv.wait while one of two threads has signalled and
\* the other has not.
UpdateSystemReturnsWitness ==
    /\ mainpc = "wait"
    /\ thNum = 2
    /\ threadSignals = 1
    /\ \E w \in Ids : workers[w].pc = "lock"

\* C11: spawns with no pass in between, starting from the empty world, fill the
\* batches in order: after n spawns there are ceil(n / MAX_BATCH_VERTS) batches,
\* every batch but the last is full and the last holds the rest; so
\* MAX_BATCH_VERTS + 1 spawns leave two batches, of population MAX_BATCH_VERTS and 1.
SpawnsFillBatchesInOrder ==
    passes = 0 =>
        /\ Len(particles) = CeilDiv(spawns, MAX_BATCH_VERTS)
        /\ \A j \in 1 .. Len(particles) :
              particles[j].population =
                  IF j < Len(particles) THEN MAX_BATCH_VERTS
                  ELSE spawns - MAX_BATCH_VERTS * (Len(particles) - 1)

\* MAX_BATCH_VERTS + 1 spawns before the first pass.
SpawnsFillBatchesInOrderWitness ==
    /\ passes = 0
    /\ spawns = MAX_BATCH_VERTS + 1
    /\ Len(particles) = 2
    /\ particles[1].population = MAX_BATCH_VERTS
    /\ particles[2].population = 1

\* C12: when the integrated position of a particle is the origin of a force
\* field (r2 = 0), the pass stores a defined force for it: no component of the
\* acceleration or of the velocity is the result of a division by r2 = 0.
ForceDefinedAtFieldOrigin ==
    PassReturned =>
        \A j \in 1 .. Len(particles) : \A i \in Live(particles[j]) :
            (\E k \in 1 .. Len(gravFields) :
                 gravFields[k].origin = particles[j].vertices[i])
            => /\ ~IsNaN(particles[j].acceleration[i].x)
               /\ ~IsNaN(particles[j].acceleration[i].y)
               /\ ~IsNaN(particles[j].velocities[i].x)
               /\ ~IsNaN(particles[j].velocities[i].y)

\* C13: the tick loop entered with the accumulator a >= 0 calls updateSystem
\* floor(a / dt) times and leaves a - floor(a / dt) * dt in the accumulator,
\* which is at least 0 and below dt (2 calls and dt / 2 left for a = 2.5 dt,
\* no call for a < dt); while the loop runs, each finished call has taken one dt.
TickLoopExact ==
    /\ mainpc = "tick" => time = frame.entry - frame.calls * dt
    /\ (InUpdateSystem \/ mainpc = "returned") =>
           time = frame.entry - (frame.calls - 1) * dt
    /\ ((mainpc = "tick" /\ ~TickTest(time)) \/ mainpc = "idle") =>
           /\ frame.calls = frame.entry \div dt
           /\ time = frame.entry - (frame.entry \div dt) * dt
           /\ 0 <= time /\ time < dt
           /\ frame.entry < dt => frame.calls = 0

\* The loop was entered with 2.5 dt and is left after 2 calls with dt / 2.
TickLoopExactWitness ==
    /\ mainpc = "idle"
    /\ frame = [entry |-> 5 * (dt \div 2), calls |-> 2]
    /\ time = dt \div 2
    /\ passes = 2

\* C14 as stated: the number of batches is a function of the number of
\* spawnParticle calls alone; as n calls with no removal leave ceil(n / K)
\* batches, that function is ceil(n / K) whatever was removed in between.
BatchCountBySpawnCount ==
    Len(particles) = CeilDiv(spawns, MAX_BATCH_VERTS)

\* C14, amended: the number of batches never decreases and is at most
\* ceil(n / K) after n spawnParticle calls (and at least 1 once n >= 1), with
\* equality as long as no particle was removed; a removal from the last batch
\* frees a slot that later calls fill before a batch is appended.
BatchCountBoundedBySpawns ==
    /\ [](/\ Len(particles) <= CeilDiv(spawns, MAX_BATCH_VERTS)
          /\ spawns >= 1 => Len(particles) >= 1
          /\ SumPopulation(particles, Len(particles)) = spawns
                 => Len(particles) = CeilDiv(spawns, MAX_BATCH_VERTS))
    /\ [][Len(particles') >= Len(particles)]_vars

\* After removals from the last batch, K + 1 spawns are held by a single batch.
BatchCountBoundedBySpawnsWitness ==
    /\ spawns = MAX_BATCH_VERTS + 1
    /\ passes >= 1
    /\ Len(particles) = 1
    /\ particles[1].population >= 1

\* C15 as stated: with a single field at the origin (0,0) of intensity I, a
\* particle whose integrated position is (d, 0), d # 0, has the float quotient
\* -I / d and 0 as its acceleration.
ForceLawExact ==
    (PassReturned /\ Len(gravFields) = 1 /\ gravFields[1].origin = ZeroVec) =>
        \A i \in Live(particles[1]) :
            (particles[1].vertices[i].y = Zero(0) /\ particles[1].vertices[i].x.m # 0)
            => particles[1].acceleration[i] =
                   Vec(FDiv(FNeg(gravFields[1].intensity), particles[1].vertices[i].x),
                       Zero(0))

\* C15, amended: when 2^-60 <= |d| < 2^60 and 2^-60 <= |I| < 2^60, so that none of
\* the three float operations d * d, r / r2 and * I that compute the force
\* overflows or underflows, the force is (-I / d, 0) up to their rounding: the x
\* component is at most 4 floats away from the float quotient -I / d, the y
\* component is 0.
ForceLawSingleField ==
    (PassReturned /\ Len(gravFields) = 1 /\ gravFields[1].origin = ZeroVec) =>
        \A i \in Live(particles[1]) :
            (/\ particles[1].vertices[i].y = Zero(0)
             /\ Magnitude(particles[1].vertices[i].x, -60, 60)
             /\ Magnitude(gravFields[1].intensity, -60, 60))
            => /\ Near(particles[1].acceleration[i].x,
                       FDiv(FNeg(gravFields[1].intensity), particles[1].vertices[i].x), 4)
               /\ particles[1].acceleration[i].y = Zero(0)

\* Intensity -3 and d = 7: the force is one float above the float 3 / 7.
ForceLawSingleFieldWitness ==
    /\ PassReturned
    /\ gravFields = << gField(ZeroVec, F(-3)) >>
    /\ particles[1].population = 1
    /\ particles[1].vertices[0] = Vec(F(7), F(0))
    /\ particles[1].acceleration[0].x # FDiv(F(3), F(7))
    /\ Near(particles[1].acceleration[0].x, FDiv(F(3), F(7)), 1)

\* C16: a pass (T >= 1) removes from each batch exactly the particles that were
\* outside the bounds when it began: the population went down by their number,
\* and every live slot holds the integrated position of a particle that was
\* inside the bounds, so that none of the removed particles is left in one.
OutsideRemovedExactly ==
    PassReturned =>
        \A j \in 1 .. Len(snap) :
            /\ particles[j].population =
                   snap[j].population - Cardinality(OutsideSlots(snap[j]))
            /\ \A n \in Live(particles[j]) :
                   \E k \in InsideSlots(snap[j]) :
                       particles[j].vertices[n] = Integrate(snap[j], k).vertices[k]

\* A pass returned that removed the top particle of a full batch and kept the
\* ones below it.
OutsideRemovedExactlyWitness ==
    /\ PassReturned
    /\ \E j \in 1 .. Len(snap) :
           /\ snap[j].population = MAX_BATCH_VERTS
           /\ OutsideSlots(snap[j]) = { MAX_BATCH_VERTS - 1 }
           /\ particles[j].population = MAX_BATCH_VERTS - 1

\* C17: a pass (T >= 1) integrates every particle that was live and inside the
\* bounds when it began exactly once, whatever is removed from the same batch:
\* the live particles of a batch after the pass are, counted with multiplicity,
\* the once-integrated in-bounds particles of its start.
EachIntegratedOnce ==
    PassReturned =>
        \A j \in 1 .. Len(snap) :
            /\ \A k \in InsideSlots(snap[j]) :
                   Cardinality({ n \in Live(particles[j]) :
                       PosVel(particles[j], n) = IntegratedOnce(snap[j], k) })
                   = Cardinality({ k2 \in InsideSlots(snap[j]) :
                       IntegratedOnce(snap[j], k2) = IntegratedOnce(snap[j], k) })
            /\ \A n \in Live(particles[j]) :
                   \E k \in InsideSlots(snap[j]) :
                       PosVel(particles[j], n) = IntegratedOnce(snap[j], k)

\* A pass returned in which a particle was integrated in slot 2 and then moved
\* down twice, by the removals of the particles in slots 1 and 0.
EachIntegratedOnceWitness ==
    /\ PassReturned
    /\ \E j \in 1 .. Len(snap) :
           /\ OutsideSlots(snap[j]) = { 0, 1 }
           /\ 2 \in InsideSlots(snap[j])
           /\ PosVel(particles[j], 0) = IntegratedOnce(snap[j], 2)
           /\ PosVel(particles[j], 0) # PosVel(snap[j], 2)

\* C18: when a pass (T >= 1) returns, the particles of a batch that were not
\* removed fill the slots 0 .. population - 1 in the order they had before the
\* pass, each with its own position and velocity, without gap or duplicate.
SurvivorsKeepOrder ==
    PassReturned =>
        \A j \in 1 .. Len(snap) :
            /\ particles[j].population = Len(InBoundsSlots(snap[j]))
            /\ [n \in 1 .. Len(InBoundsSlots(snap[j])) |-> PosVel(particles[j], n - 1)]
                   = [n \in 1 .. Len(InBoundsSlots(snap[j])) |->
                          IntegratedOnce(snap[j], InBoundsSlots(snap[j])[n])]

\* A pass returned that removed the particle of slot 0 of a batch of three and
\* kept the two above it, which differ in velocity: both moved down one slot and
\* the one that was below is still below.
SurvivorsKeepOrderWitness ==
    /\ PassReturned
    /\ \E j \in 1 .. Len(snap) :
           /\ snap[j].population = 3
           /\ InBoundsSlots(snap[j]) = << 1, 2 >>
           /\ IntegratedOnce(snap[j], 1) # IntegratedOnce(snap[j], 2)
           /\ particles[j].population = 2
           /\ PosVel(particles[j], 0) = IntegratedOnce(snap[j], 1)
           /\ PosVel(particles[j], 1) = IntegratedOnce(snap[j], 2)

\* C19: threadSignals is 0 when updateSystem is entered and when it has
\* returned; during a pass it counts exactly the threads of this pass that have
\* signalled, so it never exceeds T and no signal of an earlier pass is in it.
SignalsBelongToPass ==
    /\ ~InUpdateSystem => threadSignals = 0
    /\ (mainpc = "create" /\ thI = 0) => threadSignals = 0
    /\ InUpdateSystem =>
           /\ threadSignals <= thNum
           /\ threadSignals = Cardinality({ w \in Ids : workers[w].pc = "done" })
           /\ \A w \in Ids : workers[w].pc = "done" => w < thI

\* The second pass with two or more threads has collected all its signals.
SignalsBelongToPassWitness ==
    /\ passes >= 2
    /\ mainpc = "reset"
    /\ thNum >= 2
    /\ threadSignals = thNum

\* C20: a spawnParticle call appends a batch when the world is empty or the last
\* batch is full, and then changes the last batch only: its population goes up
\* by 1 and the counter by 1, while every other batch, free slots or not, and
\* every slot that was live in the last batch stay as they were.
SpawnChangesLastBatchOnly ==
    [][ spawns' = spawns + 1 =>
        LET M     == Len(particles)
            fresh == M = 0 \/ particles[M].population >= MAX_BATCH_VERTS
            L     == Len(particles')
        IN  /\ L = IF fresh THEN M + 1 ELSE M
            /\ \A j \in 1 .. M : j # L => particles'[j] = particles[j]
            /\ particles'[L].population =
                   (IF fresh THEN 0 ELSE particles[M].population) + 1
            /\ ~fresh => \A i \in Live(particles[M]) :
                   /\ particles'[L].vertices[i] = particles[M].vertices[i]
                   /\ particles'[L].velocities[i] = particles[M].velocities[i]
                   /\ particles'[L].acceleration[i] = particles[M].acceleration[i]
            /\ particleCounter' = particleCounter + 1 ]_vars

\* One spawn into a world of two batches with free slots in both: batch 0 is
\* still empty and untouched, the particle is in slot 0 of batch 1.
SpawnChangesLastBatchOnlyWitness ==
    /\ spawns = 1
    /\ Len(particles) = 2
    /\ particles[1] = FilledBatch(1, 0)
    /\ particles[2].population = 1
    /\ particles[2].vertices[0] \in MousePositions
    /\ particleCounter = 1

====
